---- MODULE Spec2Model ----
(***************************************************************************)
(* Scene-parallel transcoding engine of TransRustica (src/shared/lib.rs).  *)
(* The model covers one input file processed by repeated invocations of    *)
(* run_ffmpeg_extract_scene_changes_pipe_vmaf_target_threaded in one       *)
(* working directory: the checkpoint files done.txt and chunks.txt, the    *)
(* scene artifacts scene_NNN_encoded.mkv, the side container temp.mkv, the *)
(* worker pool, the per-scene CRF search and concatenate_videos.  A run    *)
(* may be killed at any point; the files stay as they are.                 *)
(*                                                                         *)
(* Units: VMAF scores are integers in tenths, CRF values integers in       *)
(* eighths, scene boundaries integers in seconds.                          *)
(***************************************************************************)
EXTENDS Integers, Sequences, FiniteSets, Bags, TLC

\* ------------------------------------------------------------------ bounds
MaxScenes == 2
MaxDuration == 2
MaxRuns == 2
MaxFaults == 1

\* args.vmaf_threads: the size of the worker pool
thread_count == 2

\* args.vmaf, the target score, in tenths
vmaf_target == 970

\* scores the measurement of one probe may report, in tenths; 0 is what
\* parse_vmaf_score(...).unwrap_or(0.0) yields when nothing could be parsed
VmafValues == {0, 930, 968}

VARIABLES
    scene_changes,   \* the boundary list of the input file (argument)
    pc,              \* position of the run: "idle", "pool", "asm_*"
    queue,           \* jobs submitted to the pool and not yet started
    active,          \* running jobs: set of [scene, at]
    doneExists,      \* done.txt exists
    doneLog,         \* lines of done.txt
    chunksExists,    \* chunks.txt exists
    chunksLog,       \* lines of chunks.txt: the bag of their scene indices
    sceneFiles,      \* indices i with a file scene_<i>_encoded.mkv
    tempExists,      \* temp.mkv exists
    listLines,       \* lines of list.txt as written by this run
    outputWritten,   \* the remux of this run wrote the final output
    concatResult,    \* result of concatenate_videos in this run
    \* ---- history of the run, kept for the properties
    runNo,           \* number of runs started
    doneAtStart,     \* indices listed in done.txt when the run started
    submitted,       \* scenes handed to threadpool.execute, in order
    searchFailed,    \* scenes whose search returned Err in this run
    encodeFailed,    \* scenes whose full encode failed in this run
    panicked,        \* scenes whose worker panicked in this run
    asmStart,        \* files present when concatenate_videos was entered
    interrupted,     \* the previous run was killed
    faults,          \* failures of tools and of file operations so far
    \* ---- the batch of the command line (chunked mode)
    batchFile,       \* number of the file of the batch being processed
    batchAt,         \* position in the body of the loop over the files
    batchFailed,     \* files of the batch in whose pipeline something failed
    sizesDone,       \* scenes of the file whose size has been measured
    \* ---- one call of process_scene_adjust_crf_binary, probe by probe
    search,          \* the locals of the function and the probes made
    searchTarget,    \* its argument vmaf_target, in tenths
    searchResult,    \* "idle", "running", or what it returned: "ok", "err"
    \* ---- one call of run_ffmpeg_scene_change, read by read
    scan,            \* its position, its arguments and its locals
    \* ---- the progress statics WEB_*_STATIC and the threads that use them
    web,             \* holders and values of the locks, readers, writers
    mutexes,         \* the locks alone, under every reader and writer
    \* ---- one call of run_ab_av1_crf_search, attempt by attempt
    ladder,          \* its argument vmaf, its local vmaf, what it returned
    \* ---- the start of the pipeline function as a function of its inputs
    load,            \* boundary list and done.txt given, and what it made
    \* ---- the two timecodes a worker renders for its scene
    timecodes        \* the boundaries of the scene, and ss_arg and to_arg

vars == <<scene_changes, pc, queue, active, doneExists, doneLog, chunksExists,
          chunksLog, sceneFiles, tempExists, listLines, outputWritten,
          concatResult, runNo, doneAtStart, submitted, searchFailed,
          encodeFailed, panicked, asmStart, interrupted, faults,
          batchFile, batchAt, batchFailed, sizesDone,
          search, searchTarget, searchResult, scan, web, mutexes, ladder, load, timecodes>>

\* groups of variables, for the UNCHANGED clauses
batchVars == <<batchFile, batchAt, batchFailed, sizesDone>>
searchVars == <<search, searchTarget, searchResult, ladder>>
scanVars == <<scan>>
webVars == <<web, mutexes>>
loadVars == <<load, timecodes>>
inputVars ==
    <<scene_changes, batchVars, searchVars, scanVars, webVars, loadVars>>
poolVars == <<queue, active>>
ckptVars == <<doneExists, doneLog>>
ledgerVars == <<chunksExists, chunksLog>>
asmVars == <<listLines, outputWritten, concatResult, asmStart>>
runVars == <<runNo, doneAtStart, submitted, interrupted>>
failVars == <<searchFailed, encodeFailed, panicked>>

\* ----------------------------------------------------------------- helpers
Range(s) == {s[k] : k \in DOMAIN s}

IsStrictlyIncreasing(s) == \A k \in 1..(Len(s) - 1) : s[k] < s[k + 1]

\* boundary lists run_ffmpeg_scene_change can hand over for a file of
\* MaxDuration seconds: 0 first, the duration last, strictly increasing
BoundaryLists ==
    UNION {{b \in [1..(n + 1) -> 0..MaxDuration] :
               /\ b[1] = 0
               /\ b[n + 1] = MaxDuration
               /\ IsStrictlyIncreasing(b)} : n \in 1..MaxScenes}

\* scenes.push((i, window[0], window[1])) over windows(2)
ScenesOf(b) == [k \in 1..(Len(b) - 1) |-> <<k - 1, b[k], b[k + 1]>>]

NumScenes == Len(scene_changes) - 1
AllIndices == 0..(NumScenes - 1)

Duration(sc) == sc[3] - sc[2]

\* scenes.sort_by(longest first, stable); scenes.reverse(): shortest first,
\* and among scenes of equal duration the higher index first
Precedes(a, b) ==
    \/ Duration(a) < Duration(b)
    \/ Duration(a) = Duration(b) /\ a[1] > b[1]

\* a mutant of SortByDuration: the scenes stay in the order of the file
SortSkipped(scs) == scs

SortByDuration(scs) ==
    [p \in 1..Len(scs) |->
        CHOOSE a \in Range(scs) :
            Cardinality({b \in Range(scs) : Precedes(b, a)}) = p - 1]

\* scenes.into_iter().filter(|(index, _, _)| *index != line): one line
\* of done.txt applied to the scene vector
FilterLine(scs, line) == SelectSeq(scs, LAMBDA sc : sc[1] # line)

\* a mutant of FilterDone: the lines of done.txt are ignored
FilterDoneIgnored(scs, lines) == scs

\* for line in done.lines() { scenes = scenes.filter(index != line) }
RECURSIVE FilterDone(_, _)
FilterDone(scs, lines) ==
    IF lines = <<>> THEN scs
    ELSE FilterDone(FilterLine(scs, Head(lines)), Tail(lines))

\* a mutant of OpenDone: done.txt is created, and so truncated, every time
OpenDoneTruncating(exists, log) == <<>>

\* if !Path::new("done.txt").exists() { File::create("done.txt") }:
\* the lines of done.txt after the start of a run
OpenDone(exists, log) == IF exists THEN log ELSE <<>>

\* ------------------------------------------------ the per-scene CRF search
Abs(x) == IF x < 0 THEN 0 - x ELSE x

\* let mut crf = 23.0; min_crf = 10.0; max_crf = 45.0; best_vmaf = 0.0;
\* best_crf = crf; iteration = 1  (CRF in eighths)
CrfUnit == 8
max_iterations == 3

SearchInit ==
    [crf |-> 23 * CrfUnit, min_crf |-> 10 * CrfUnit, max_crf |-> 45 * CrfUnit,
     best_vmaf |-> 0, best_crf |-> 23 * CrfUnit, iteration |-> 1,
     stopped |-> FALSE, probes |-> <<>>]

\* a mutant of StepFor: steps of 16.0 in all the bands
StepForWide(e) == IF e <= 30 /\ e > 5 THEN 16 * CrfUnit ELSE 0

\* a mutant of StepFor: one step size for all the bands
StepForUniform(e) == IF e <= 30 /\ e > 5 THEN CrfUnit ELSE 0

\* a mutant of StepFor: every correction is a bisection
StepForBisectOnly(e) == 0

\* the step bands: the amount added to crf (score above target) or taken
\* from it (score below target); 0 stands for the bisection branch
StepFor(e) ==
    IF e <= 30 /\ e > 20 THEN 3 * CrfUnit
    ELSE IF e <= 20 /\ e > 10 THEN 2 * CrfUnit
    ELSE IF e <= 10 /\ e > 8 THEN CrfUnit
    ELSE IF e <= 8 /\ e > 5 THEN CrfUnit \div 2
    ELSE 0

\* a mutant of Accepted: no score is close enough
AcceptedNever(e) == FALSE

\* if (vmaf_target - vmaf_score).abs() <= 0.5: close enough, exit early
Accepted(e) == e <= 5

\* a mutant of Overshoot: the score is always taken to be above the target
OvershootAlways(vmaf_score, target) == TRUE

\* if vmaf_score > vmaf_target: the test of every band and of the bisection
Overshoot(vmaf_score, target) == vmaf_score > target

\* one pass of the body of `while iteration <= max_iterations`, given the
\* score the probe at st.crf measured
SearchIteration(st, target, vmaf_score) ==
    LET e == Abs(target - vmaf_score)
        logged == [st EXCEPT !.probes = Append(@, <<st.crf, vmaf_score>>)]
    IN  IF Accepted(e)
        THEN [logged EXCEPT !.best_crf = st.crf, !.best_vmaf = vmaf_score,
                            !.stopped = TRUE]
        ELSE
          LET step == StepFor(e)
              over == Overshoot(vmaf_score, target)
              min2 == IF step = 0 /\ over
                      THEN st.crf - CrfUnit ELSE st.min_crf
              max2 == IF step = 0 /\ ~over
                      THEN st.crf + CrfUnit ELSE st.max_crf
              crf2 == IF step = 0 THEN min2 + (max2 - min2) \div 2
                      ELSE IF over THEN st.crf + step
                      ELSE st.crf - step
              moved == [logged EXCEPT !.crf = crf2, !.min_crf = min2,
                                      !.max_crf = max2]
          IN  IF min2 > max2
              THEN [moved EXCEPT !.stopped = TRUE]
              ELSE
                LET better == e < Abs(target - st.best_vmaf)
                IN  [moved EXCEPT
                        !.best_crf = IF better THEN crf2 ELSE @,
                        !.best_vmaf = IF better THEN vmaf_score ELSE @,
                        !.iteration = @ + 1]

\* a mutant of LoopContinues: the iteration budget is not looked at
LoopUnbounded(st) == ~st.stopped

\* while iteration <= max_iterations, left early by a break
LoopContinues(st) == ~st.stopped /\ st.iteration <= max_iterations

RECURSIVE SearchLoop(_, _, _)
SearchLoop(st, target, m) ==
    IF ~LoopContinues(st) \/ m = <<>> THEN st
    ELSE SearchLoop(SearchIteration(st, target, Head(m)), target, Tail(m))

\* a mutant of SearchOutcome: any probe made counts as a success
SearchOutcomeAnyProbe(st) == IF st.probes # <<>> THEN "ok" ELSE "err"

\* if best_vmaf != 0.0 { Ok((best_crf, best_vmaf)) } else { Err(..) }
SearchOutcome(st) == IF st.best_vmaf # 0 THEN "ok" ELSE "err"

\* process_scene_adjust_crf_binary for a scene whose probes measure m[1],
\* m[2], m[3]: Ok((best_crf, best_vmaf)) if best_vmaf != 0.0, else Err
process_scene_adjust_crf_binary(target, m) ==
    LET st == SearchLoop(SearchInit, target, m)
    IN  [ok |-> SearchOutcome(st) = "ok", crf |-> st.best_crf,
         vmaf |-> st.best_vmaf, probes |-> st.probes]

Measurements == [1..max_iterations -> VmafValues]

\* what the search can return to the worker: Ok or Err
SearchResults ==
    {[ok |-> process_scene_adjust_crf_binary(vmaf_target, m).ok] :
        m \in Measurements}

\* the targets the search is called with (args.vmaf is an i32, in [0, 100])
\* and the scores one probe may measure, in tenths; 0 is no score parsed
SearchTargets == {0, 400, 950, 970, 1000}
ProbeScores ==
    {0, 900, 925, 930, 940, 943, 945, 955, 957, 960, 961, 962, 968, 976, 979,
     985, 1000}

\* what is left alone by the steps of one search
notSearchVars ==
    <<scene_changes, batchVars, poolVars, ckptVars, ledgerVars, asmVars,
      runVars, failVars, pc, sceneFiles, tempExists, faults, scanVars,
      webVars, loadVars, ladder>>

\* process_scene_adjust_crf_binary is called: its locals are initialised
SearchCall ==
    /\ searchResult = "idle"
    /\ searchTarget' \in SearchTargets
    /\ search' = SearchInit
    /\ searchResult' = "running"
    /\ UNCHANGED notSearchVars

\* one pass of the loop: the probe at search.crf measures vmaf_score
SearchProbe ==
    /\ searchResult = "running"
    /\ LoopContinues(search)
    /\ \E vmaf_score \in ProbeScores :
        search' = SearchIteration(search, searchTarget, vmaf_score)
    /\ UNCHANGED <<searchTarget, searchResult, notSearchVars>>

\* the loop has ended: the function returns
SearchReturn ==
    /\ searchResult = "running"
    /\ ~LoopContinues(search)
    /\ searchResult' = SearchOutcome(search)
    /\ UNCHANGED <<search, searchTarget, notSearchVars>>

\* ------------------------------------------- the scan for scene changes
\* one call of run_ffmpeg_scene_change.  Times are integers in units of
\* the grid of the detections; ScanMaxTime bounds the duration of the file
ScanMaxTime == 4

\* args.scene_split_min, in the same units (the default is 2 seconds)
SplitMins == {1, 2}

ScanIdle ==
    [at |-> "idle", total_duration |-> 1, scene_split_min |-> 2,
     scene_changes_list |-> <<>>, last_pts |-> 0, eof |-> FALSE]

\* the state of the pipeline and of the search, left alone by the scan
notScanVars ==
    <<scene_changes, batchVars, searchVars, poolVars, ckptVars, ledgerVars,
      asmVars, runVars, failVars, pc, sceneFiles, tempExists, faults,
      webVars, loadVars>>

Last(list) == list[Len(list)]

\* a mutant of TooClose: no detection is ever dropped
TooCloseNever(list, current_pts_time, min) == FALSE

\* if current_pts_time - scene_changes_list[len - 1] < args.scene_split_min
\* { continue; }: the detection is dropped
TooClose(list, current_pts_time, min) == current_pts_time - Last(list) < min

\* a mutant of Finish: the duration is not appended
FinishWithoutDuration(list, total_duration) == list

\* scene_changes_list.push(total_duration); Ok(scene_changes_list)
Finish(list, total_duration) == Append(list, total_duration)

\* ffprobe has printed the duration, the scan process is started,
\* scene_changes_list.push(0.0)
ScanCall ==
    /\ scan.at = "idle"
    /\ \E d \in 1..ScanMaxTime, min \in SplitMins :
        scan' = [at |-> "reading", total_duration |-> d,
                 scene_split_min |-> min, scene_changes_list |-> <<0>>,
                 last_pts |-> 0, eof |-> FALSE]
    /\ UNCHANGED notScanVars

\* one pass of the read loop over a buffer that holds a "pts_time:" of a
\* frame later than the ones before; out says that it also holds "out#0".
\* A dropped detection ends the pass with `continue`, before the test for
\* "out#0".
ScanDetection ==
    /\ scan.at = "reading"
    /\ ~scan.eof
    /\ \E current_pts_time \in (scan.last_pts + 1)..scan.total_duration,
          out \in BOOLEAN :
        LET list == scan.scene_changes_list
            kept == Append(list, current_pts_time)
        IN  IF TooClose(list, current_pts_time, scan.scene_split_min)
            THEN scan' = [scan EXCEPT !.last_pts = current_pts_time,
                                      !.eof = out]
            ELSE IF out
            THEN scan' = [scan EXCEPT !.at = "returned",
                                      !.last_pts = current_pts_time,
                                      !.scene_changes_list =
                                          Finish(kept, scan.total_duration)]
            ELSE scan' = [scan EXCEPT !.last_pts = current_pts_time,
                                      !.scene_changes_list = kept]
    /\ UNCHANGED notScanVars

\* one pass over a buffer without "pts_time:" that holds "out#0", or a read
\* that fails (Err(e) => break)
ScanEnd ==
    /\ scan.at = "reading"
    /\ ~scan.eof
    /\ scan' = [scan EXCEPT !.at = "returned",
                            !.scene_changes_list =
                                Finish(scan.scene_changes_list,
                                       scan.total_duration)]
    /\ UNCHANGED notScanVars

\* the stream ends without a buffer that breaks the loop: every later read
\* returns Ok(0), the buffer is empty and the loop goes on
ScanEof ==
    /\ scan.at = "reading"
    /\ ~scan.eof
    /\ scan' = [scan EXCEPT !.eof = TRUE]
    /\ UNCHANGED notScanVars

\* the caller takes the list; the function may be called again
ScanReset ==
    /\ scan.at = "returned"
    /\ scan' = ScanIdle
    /\ UNCHANGED notScanVars

\* ------------------------------------------------ the progress statics
\* WEB_TASK_ID_STATIC, WEB_FPS_STATIC, WEB_CURRENT_FRAME_STATIC: one Mutex
\* per field, numbered in the order of their declaration.  The five statics
\* after them (total frame, expected size, current file, total files,
\* current file name) are locked after these three, by the same statements
\* and in the same order in every function, as frame is; they are left out.
Fields == <<"task_id", "fps", "frame">>

\* the transcode tasks that write the statics and the HTTP requests that
\* read them
MaxReaders == 1
Tasks == {1, 2}
Readers == 1..MaxReaders

\* the locks a reader takes, in the order of its let bindings; each guard
\* lives until the function returns
ReaderLocks(kind) ==
    IF kind = "get_progress_web" THEN <<1, 2, 3>> ELSE <<2, 3>>

\* the lock operations of one progress update of run_ffmpeg_transcode, in
\* order: *X.lock().unwrap() = v is "write", v = *X.lock().unwrap() is
\* "read"; the guard is a temporary, dropped at the end of the statement
WriterSteps ==
    <<<<1, "write">>, <<2, "write">>, <<2, "read">>, <<3, "write">>,
      <<3, "read">>>>

ReaderIdle == [kind |-> "none", id |-> 0, taken |-> 0]

\* holder: the reader that holds the lock of a field (0: free); value: the
\* task that wrote the field last (0: the initial MAX); wr: the step of its
\* update a task is about to make (0: between two updates); snap: what the
\* last request returned, the id it is labelled with and the tasks whose
\* values it holds
WebInit ==
    [holder |-> [f \in DOMAIN Fields |-> 0],
     value |-> [f \in DOMAIN Fields |-> 0],
     rd |-> [r \in Readers |-> ReaderIdle],
     wr |-> [t \in Tasks |-> 0],
     snap |-> [kind |-> "none", id |-> 0, from |-> {}]]

notWebVars ==
    <<scene_changes, batchVars, searchVars, scanVars, poolVars, ckptVars,
      ledgerVars, asmVars, runVars, failVars, pc, sceneFiles, tempExists,
      faults, loadVars, mutexes>>

\* a request arrives: GET /progress (get_progress_web) or
\* GET /progress/<id> (get_progress_web_id(id))
ReaderCall(r) ==
    /\ web.rd[r].kind = "none"
    /\ \E kind \in {"get_progress_web", "get_progress_web_id"}, id \in Tasks :
        /\ kind = "get_progress_web" => id = 1
        /\ web' = [web EXCEPT !.rd[r] =
                       [kind |-> kind,
                        id |-> IF kind = "get_progress_web" THEN 0 ELSE id,
                        taken |-> 0]]
    /\ UNCHANGED notWebVars

\* let x = WEB_X_STATIC.lock().unwrap(): the reader takes its next lock and
\* keeps it; it waits while the lock is held
ReaderLock(r) ==
    LET me == web.rd[r]
        locks == ReaderLocks(me.kind)
    IN  /\ me.kind # "none"
        /\ me.taken < Len(locks)
        /\ web.holder[locks[me.taken + 1]] = 0
        /\ web' = [web EXCEPT !.holder[locks[me.taken + 1]] = r,
                              !.rd[r].taken = me.taken + 1]
        /\ UNCHANGED notWebVars

\* the id a snapshot is labelled with: the value of WEB_TASK_ID_STATIC in
\* get_progress_web, the argument in get_progress_web_id; "" (0) while fps
\* is still u64::MAX
SnapshotId(me) ==
    IF web.value[2] = 0 THEN 0
    ELSE IF me.kind = "get_progress_web" THEN web.value[1]
    ELSE me.id

\* the Progress is built from the guarded values and returned; the guards
\* are dropped
ReaderReturn(r) ==
    LET me == web.rd[r]
        locks == ReaderLocks(me.kind)
    IN  /\ me.kind # "none"
        /\ me.taken = Len(locks)
        /\ web' = [web EXCEPT
                     !.holder = [f \in DOMAIN Fields |->
                                    IF web.holder[f] = r THEN 0
                                    ELSE web.holder[f]],
                     !.rd[r] = ReaderIdle,
                     !.snap = [kind |-> me.kind, id |-> SnapshotId(me),
                               from |-> IF web.value[2] = 0 THEN {}
                                        ELSE {web.value[f] : f \in 2..Len(Fields)}]]
        /\ UNCHANGED notWebVars

\* the encoder of task t has printed a progress line: the update begins
WriterBegin(t) ==
    /\ web.wr[t] = 0
    /\ web' = [web EXCEPT !.wr[t] = 1]
    /\ UNCHANGED notWebVars

\* a writer waits: the lock of its next statement is held
Waits(t) == web.wr[t] # 0 /\ web.holder[WriterSteps[web.wr[t]][1]] # 0

\* one statement of the update: lock, write or read, unlock
WriterStep(t) ==
    LET step == WriterSteps[web.wr[t]]
    IN  /\ web.wr[t] # 0
        /\ ~Waits(t)
        /\ web' = [web EXCEPT
                     !.value[step[1]] = IF step[2] = "write" THEN t ELSE @,
                     !.wr[t] = IF web.wr[t] = Len(WriterSteps) THEN 0
                               ELSE web.wr[t] + 1]
        /\ UNCHANGED notWebVars

\* ------------------------------------ the whole-file search and its retries
\* run_ab_av1_crf_search(.., vmaf, ..): the external search is run for the
\* target vmaf; each time it fails the target is lowered by 1

\* the targets given: Args.vmaf is an i32 that nothing checks
MaxVmaf == 12
MaxAttempts == 16
I32Max == 2147483647
I32Min == -I32Max - 1
LadderTargets == (-2..MaxVmaf) \cup {I32Min}

LadderIdle ==
    [at |-> "idle", target |-> 0, vmaf |-> 0, attempts |-> 0,
     result |-> "none", value |-> 0]

notLadderVars ==
    <<scene_changes, batchVars, search, searchTarget, searchResult, scanVars,
      webVars, loadVars, poolVars, ckptVars, ledgerVars, asmVars, runVars,
      failVars, pc, sceneFiles, tempExists, faults>>

\* vmaf -= 1 on an i32: below i32::MIN a build with overflow checks
\* panics, a build without them wraps around to i32::MAX
Decrement(v) ==
    IF v = I32Min THEN {[panic |-> TRUE, vmaf |-> v],
                        [panic |-> FALSE, vmaf |-> I32Max]}
    ELSE {[panic |-> FALSE, vmaf |-> v - 1]}

\* the function is entered; the progress statics are written, the loop begins
LadderCall ==
    /\ ladder.at = "idle"
    /\ \E target \in LadderTargets :
        ladder' = [LadderIdle EXCEPT !.at = "loop", !.target = target,
                                     !.vmaf = target]
    /\ UNCHANGED notLadderVars

\* one turn of the loop: execute_crf_search(.., vmaf, ..)? succeeds, fails,
\* or cannot run the tool at all; the number of turns one behaviour may
\* take is bounded by MaxAttempts
LadderAttempt ==
    /\ ladder.at = "loop"
    /\ ladder.attempts < MaxAttempts
    /\ \E outcome \in {"success", "failure", "io_error"} :
        LET tried == [ladder EXCEPT !.attempts = @ + 1]
        IN  \/ /\ outcome = "io_error"
               /\ ladder' = [tried EXCEPT !.at = "returned",
                                          !.result = "io_error"]
            \/ /\ outcome = "success"
               /\ ladder' = [tried EXCEPT !.at = "returned", !.result = "ok",
                                          !.value = ladder.vmaf]
            \/ /\ outcome = "failure"
               /\ ladder.vmaf = 0
               /\ ladder' = [tried EXCEPT !.at = "returned", !.result = "err"]
            \/ /\ outcome = "failure"
               /\ ladder.vmaf # 0
               /\ \E d \in Decrement(ladder.vmaf) :
                    ladder' = IF d.panic
                              THEN [tried EXCEPT !.at = "returned",
                                                 !.result = "panic"]
                              ELSE [tried EXCEPT !.vmaf = d.vmaf]
    /\ UNCHANGED notLadderVars

\* the caller takes the result; the function may be called again
LadderReset ==
    /\ ladder.at = "returned"
    /\ ladder' = LadderIdle
    /\ UNCHANGED notLadderVars
\* every function that locks a progress static, with nothing but its lock
\* operations: which lock it takes, how long it keeps it, where it waits

\* WEB_SCAN_COUNT_STATIC, WEB_SCAN_TOTAL_STATIC: their locks are numbered
\* after those of Fields
ScanFields == <<"scan_count", "scan_total">>
LockIds == 1..(Len(Fields) + Len(ScanFields))

\* a mutant of LocksOf: get_progress_web_id binds frame before fps
LocksOfReversed(fn) ==
    IF fn = "get_progress_web" THEN <<1, 2, 3>>
    ELSE IF fn = "get_progress_web_id" THEN <<3, 2>>
    ELSE IF fn = "get_progress_scan_web"
         THEN <<Len(Fields) + 1, Len(Fields) + 2>>
    ELSE IF fn = "run_ab_av1_crf_search" THEN <<1, 2, 3>>
    ELSE <<1, 2, 2, 3, 3>>

\* the locks a function takes, in the order of its statements
LocksOf(fn) ==
    IF fn = "get_progress_web" \/ fn = "get_progress_web_id"
    THEN ReaderLocks(fn)
    ELSE IF fn = "get_progress_scan_web"
         THEN <<Len(Fields) + 1, Len(Fields) + 2>>
    ELSE IF fn = "run_ab_av1_crf_search" THEN <<1, 2, 3>>
    ELSE [k \in DOMAIN WriterSteps |-> WriterSteps[k][1]]

\* the readers bind each guard with let and keep it until they return; the
\* writers lock in a temporary that is dropped at the end of the statement
ReaderFns ==
    {"get_progress_web", "get_progress_web_id", "get_progress_scan_web"}
WriterFns == {"run_ab_av1_crf_search", "run_ffmpeg_transcode"}

\* the threads: two requests at a time, and the tasks
LockReaders == {<<"request", 1>>, <<"request", 2>>}
LockWriters == {<<"task", t>> : t \in Tasks}
LockThreads == LockReaders \cup LockWriters

\* holder: the request that holds a lock (<<>>: free); th: the function a
\* thread is in ("none": in none) and the number of its lock statements
\* that are done
LockInit ==
    [holder |-> [l \in LockIds |-> <<>>],
     th |-> [x \in LockThreads |-> [fn |-> "none", taken |-> 0]]]

\* a thread enters one of its functions
LockCall(x) ==
    /\ mutexes.th[x].fn = "none"
    /\ \E fn \in IF x \in LockReaders THEN ReaderFns ELSE WriterFns :
        mutexes' = [mutexes EXCEPT !.th[x] = [fn |-> fn, taken |-> 0]]
    /\ UNCHANGED <<scene_changes, batchVars, searchVars, scanVars, poolVars,
                   ckptVars, ledgerVars, asmVars, runVars, failVars, pc,
                   sceneFiles, tempExists, faults, loadVars, web>>

\* the lock a thread is about to take (0: it has taken them all)
NextLock(x) ==
    LET me == mutexes.th[x]
    IN  IF me.fn = "none" \/ me.taken = Len(LocksOf(me.fn)) THEN 0
        ELSE LocksOf(me.fn)[me.taken + 1]

\* X.lock() blocks while the lock is held, by whatever thread
Blocked(x) == NextLock(x) # 0 /\ mutexes.holder[NextLock(x)] # <<>>

\* the next lock statement of a thread: a reader keeps the lock, a writer
\* has released it when the statement ends; the writer returns with its
\* last statement
LockStep(x) ==
    LET me == mutexes.th[x]
        l == NextLock(x)
    IN  /\ l # 0
        /\ ~Blocked(x)
        /\ mutexes' =
              IF x \in LockReaders
              THEN [mutexes EXCEPT !.holder[l] = x, !.th[x].taken = @ + 1]
              ELSE IF me.taken + 1 = Len(LocksOf(me.fn))
                   THEN [mutexes EXCEPT !.th[x] = [fn |-> "none", taken |-> 0]]
                   ELSE [mutexes EXCEPT !.th[x].taken = @ + 1]
        /\ UNCHANGED <<scene_changes, batchVars, searchVars, scanVars,
                       poolVars, ckptVars, ledgerVars, asmVars, runVars,
                       failVars, pc, sceneFiles, tempExists, faults,
                       loadVars, web>>

\* a reader returns: its guards are dropped
LockReturn(x) ==
    /\ x \in LockReaders
    /\ mutexes.th[x].fn # "none"
    /\ NextLock(x) = 0
    /\ mutexes' = [mutexes EXCEPT
                   !.holder = [l \in LockIds |->
                                  IF mutexes.holder[l] = x THEN <<>>
                                  ELSE mutexes.holder[l]],
                   !.th[x] = [fn |-> "none", taken |-> 0]]
    /\ UNCHANGED <<scene_changes, batchVars, searchVars, scanVars, poolVars,
                   ckptVars, ledgerVars, asmVars, runVars, failVars, pc,
                   sceneFiles, tempExists, faults, loadVars, web>>

\* a tool or a file operation fails (failed = TRUE) or works; the number
\* of failures in one behaviour is bounded by MaxFaults
Env(failed) ==
    /\ failed => faults < MaxFaults
    /\ faults' = IF failed THEN faults + 1 ELSE faults

\* --------------------------------------------------------- start of a run
NoAsm == [entered |-> FALSE, scenes |-> {}, temp |-> FALSE, done |-> FALSE]

RunFailures == searchFailed \cup encodeFailed \cup panicked

\* the function returns to its caller, the working directory stays as it is
Returned ==
    /\ pc' = "idle"
    /\ interrupted' = FALSE
    /\ UNCHANGED <<poolVars, runNo, doneAtStart, submitted>>

\* a mutant of DispatchOrder: every scene is handed to the pool twice
DispatchTwice(left) ==
    [k \in 1..(2 * Len(left)) |-> left[((k - 1) % Len(left)) + 1][1]]

\* for (index, scene_change, next_scene_change) in scenes {
\* threadpool.execute(..) }: one job per scene left, in the order of the vector
DispatchOrder(left) == [k \in 1..Len(left) |-> left[k][1]]

\* --------------------------------- the start of the pipeline function
\* run_ffmpeg_extract_scene_changes_pipe_vmaf_target_threaded from its
\* entry to the dispatch loop, as a function of the boundary list and of
\* the text of done.txt
LoadMaxScenes == 3
MaxLines == 2

\* the boundary lists the function may be given: 0 first, strictly
\* increasing, of at most LoadMaxScenes scenes in at most ScanMaxTime units
LoadBoundaryLists ==
    UNION {{b \in [1..(n + 1) -> 0..ScanMaxTime] :
               b[1] = 0 /\ IsStrictlyIncreasing(b)} : n \in 1..LoadMaxScenes}

\* the lines done.txt may hold: indices in decimal, an empty line, a line
\* that is no number
Digits == <<"0", "1", "2", "3", "4", "5", "6", "7", "8", "9">>
LineTexts == {<<>>, <<"0">>, <<"1">>, <<"2">>, <<"1", "x">>}
DoneTexts == UNION {[1..n -> LineTexts] : n \in 0..MaxLines}

\* line.parse::<i32>(): Err on an empty string and on any character that
\* is no digit, else the decimal value (a sign is not modelled)
RECURSIVE DecimalValue(_)
DecimalValue(text) ==
    IF text = <<>> THEN 0
    ELSE 10 * DecimalValue(SubSeq(text, 1, Len(text) - 1))
         + (CHOOSE v \in 0..9 : Digits[v + 1] = Last(text))

ParseI32(text) ==
    IF text # <<>> /\ \A k \in DOMAIN text : text[k] \in Range(Digits)
    THEN [ok |-> TRUE, value |-> DecimalValue(text)]
    ELSE [ok |-> FALSE, value |-> 0]

\* the lines of done.txt, each through parse::<i32>().unwrap(); a line
\* that does not parse panics (see AllParse)
ParsedLines(texts) == [k \in 1..Len(texts) |-> ParseI32(texts[k]).value]

AllParse(texts) == \A k \in DOMAIN texts : ParseI32(texts[k]).ok

\* frames per time unit (the argument fps), and the frame count of the
\* file, taken to agree with its duration
fps == 24
TotalFrames(b) == Last(b) * fps

RECURSIVE SumDurations(_, _)
SumDurations(scs, k) ==
    IF k = 0 THEN 0 ELSE SumDurations(scs, k - 1) + Duration(scs[k])

\* scenes_frames_nosum: for the k-th scene of the sorted vector the entry
\* (k - 1, start_frame, end_frame, scene_frames), then replaced through
\* scan() by the running sum of scene_frames up to and including it
ScenesFramesNoSum(scs) ==
    [k \in 1..Len(scs) |->
        <<k - 1, scs[k][2] * fps, scs[k][3] * fps, SumDurations(scs, k) * fps>>]

RECURSIVE SumEntries(_)
SumEntries(entries) ==
    IF entries = <<>> THEN 0 ELSE Head(entries)[4] + SumEntries(Tail(entries))

\* a u64 holding x modulo 2^64, for x above -2^64: the value is x, or
\* 2^64 + x when the subtraction that made it wrapped
U64(x) == [wrapped |-> x < 0, value |-> x]

LoadIdle ==
    [at |-> "idle", scene_changes |-> <<0, 1>>, exists |-> FALSE,
     texts |-> <<>>, outcome |-> "none", left |-> <<>>, dispatch |-> <<>>,
     position |-> U64(0), i |-> 1, shown |-> 0, completed |-> {},
     scene_index |-> -1, ticks |-> 0]

notLoadVars ==
    <<scene_changes, batchVars, searchVars, scanVars, webVars, poolVars,
      ckptVars, ledgerVars, asmVars, runVars, failVars, pc, sceneFiles,
      tempExists, faults, timecodes>>

\* the function is entered with the list b while done.txt holds texts (or
\* does not exist), and runs up to the end of the dispatch loop.  The
\* subtraction for the position of the frames bar is a u64 subtraction: if
\* it underflows it panics in a build with overflow checks and wraps in a
\* build without.
LoadRun ==
    /\ load.at = "idle"
    /\ \E b \in LoadBoundaryLists, exists \in BOOLEAN, texts \in DoneTexts,
          overflow_checks \in BOOLEAN :
        LET scenes == SortByDuration(ScenesOf(b))
            nosum == ScenesFramesNoSum(scenes)
            lines == ParsedLines(texts)
            left == FilterDone(scenes, lines)
            sum == SumEntries(FilterDone(nosum, lines))
            total_frames == TotalFrames(b)
            given == [load EXCEPT !.at = "loaded", !.scene_changes = b,
                                  !.exists = exists, !.texts = texts]
        IN  /\ ~exists => texts = <<>>
            /\ (~exists \/ ~AllParse(texts) \/ sum <= total_frames)
                   => overflow_checks
            /\ load' =
                 IF ~exists
                 THEN [given EXCEPT !.outcome = "ok", !.left = scenes,
                                    !.dispatch = DispatchOrder(scenes)]
                 ELSE IF ~AllParse(texts)
                 THEN [given EXCEPT !.outcome = "panic"]
                 ELSE IF sum > total_frames /\ overflow_checks
                 THEN [given EXCEPT !.outcome = "panic", !.left = left]
                 ELSE [given EXCEPT
                         !.outcome = "ok", !.left = left,
                         !.dispatch = DispatchOrder(left),
                         !.position = U64(total_frames - sum),
                         !.i = Len(scenes) - Len(left)]
    /\ UNCHANGED notLoadVars

\* scenes_frames: the entries of the sorted vector numbered by position,
\* their last component replaced by the running sum of the rounded frame
\* counts (the durations are whole units, so rounding changes nothing)
ScenesFrames(scs) == ScenesFramesNoSum(scs)

\* scene_frames_count in process_video_scene_encoded: the last components
\* of the entries whose first component equals the scene index, summed
SceneFramesCount(entries, scene_index) ==
    SumEntries(SelectSeq(entries, LAMBDA entry : entry[1] = scene_index))

\* i_clone.fetch_add(1, SeqCst): the value before the addition is returned
FetchAdd(i) == i

\* the lines holding "n:" that the encoder of a scene may print on stderr:
\* one per frame that showinfo reports (the scene's duration in units of
\* fps frames), and possibly lines of the description of the input, which
\* hold "n:" as well ("Duration: ...")
InfoLines == 2
FrameLines(sc) == {Duration(sc) * fps, Duration(sc) * fps + InfoLines}

Min(a, b) == IF a < b THEN a ELSE b

\* the closure of the worker of one scene left to do, from its encode to
\* the update of the counter: every "n:" line adds one tick to the frames
\* bar while scene_frames_status < scene_frames_count; then done.txt is
\* written, current_i = i.fetch_add(1) and current_i is shown
LoadSceneDone ==
    /\ load.at = "loaded"
    /\ load.outcome = "ok"
    /\ \E k \in DOMAIN load.left :
        LET sc == load.left[k]
            entries == ScenesFrames(SortByDuration(ScenesOf(load.scene_changes)))
            cap == SceneFramesCount(entries, sc[1])
        IN  /\ sc[1] \notin load.completed
            /\ \E n \in FrameLines(sc) :
                 load' = [load EXCEPT
                            !.scene_index = sc[1],
                            !.ticks = Min(n, cap),
                            !.position =
                                [wrapped |-> @.wrapped /\ @.value + Min(n, cap) < 0,
                                 value |-> @.value + Min(n, cap)],
                            !.completed = @ \cup {sc[1]},
                            !.shown = FetchAdd(load.i),
                            !.i = @ + 1]
    /\ UNCHANGED notLoadVars

\* the function has returned; it may be called again
LoadReset ==
    /\ load.at = "loaded"
    /\ load' = LoadIdle
    /\ UNCHANGED notLoadVars

\* ------------------------------------------------------- format_timecode
\* a boundary is an f32 of s whole seconds and f milliseconds, written here
\* as the record [s, f]; the boundaries a scene may have
BoundarySeconds == {0, 1, 59, 60, 999, 1000, 3599, 3600, 3661}
BoundaryMillis == {0, 1, 500, 999}
Boundaries == [s : BoundarySeconds, f : BoundaryMillis]

Earlier(a, b) == a.s < b.s \/ (a.s = b.s /\ a.f < b.f)

\* the decimal digits of a number from 0 up
RECURSIVE ToDigits(_)
ToDigits(n) ==
    IF n < 10 THEN <<Digits[n + 1]>>
    ELSE ToDigits(n \div 10) \o <<Digits[(n % 10) + 1]>>

\* {:02} and {:03}: zeros in front up to the width, no digit is cut
RECURSIVE Padded(_, _)
Padded(text, width) ==
    IF Len(text) >= width THEN text ELSE Padded(<<"0">> \o text, width)

RECURSIVE StripZeros(_)
StripZeros(text) ==
    IF text # <<>> /\ Last(text) = "0"
    THEN StripZeros(SubSeq(text, 1, Len(text) - 1))
    ELSE text

\* timecode.to_string(): the whole seconds, and behind a "." the fraction
\* without its zeros at the end, if there is a fraction
F32ToString(b) ==
    IF b.f = 0 THEN ToDigits(b.s)
    ELSE ToDigits(b.s) \o <<".">> \o StripZeros(Padded(ToDigits(b.f), 3))

\* timecode.split(".").collect::<Vec<&str>>()[0]: the text before the
\* first "."
RECURSIVE BeforeDot(_)
BeforeDot(text) ==
    IF text = <<>> \/ Head(text) = "." THEN <<>>
    ELSE <<Head(text)>> \o BeforeDot(Tail(text))

\* let miliseconds = timecode % 1000, timecode being the whole seconds
Miliseconds(b, timecode) == timecode % 1000

\* format_timecode(&timecode): the four numbers and the text made of them
FormatTimecode(b) ==
    LET timecode == ParseI32(BeforeDot(F32ToString(b))).value
        hours == timecode \div 3600
        minutes == (timecode % 3600) \div 60
        seconds == timecode % 60
        miliseconds == Miliseconds(b, timecode)
    IN  [hours |-> hours, minutes |-> minutes, seconds |-> seconds,
         miliseconds |-> miliseconds,
         text |-> Padded(ToDigits(hours), 2) \o <<":">>
                  \o Padded(ToDigits(minutes), 2) \o <<":">>
                  \o Padded(ToDigits(seconds), 2) \o <<".">>
                  \o Padded(ToDigits(miliseconds), 3)]

TimecodesIdle ==
    [at |-> "idle", scene_change |-> [s |-> 0, f |-> 0],
     next_scene_change |-> [s |-> 0, f |-> 0],
     ss_arg |-> FormatTimecode([s |-> 0, f |-> 0]),
     to_arg |-> FormatTimecode([s |-> 0, f |-> 0])]

notTimecodeVars ==
    <<scene_changes, batchVars, searchVars, scanVars, webVars, poolVars,
      ckptVars, ledgerVars, asmVars, runVars, failVars, pc, sceneFiles,
      tempExists, faults, load>>

\* a worker is given its scene: (index, scene_change, next_scene_change)
TimecodeCall ==
    /\ timecodes.at = "idle"
    /\ \E a \in Boundaries, b \in Boundaries :
        /\ Earlier(a, b)
        /\ timecodes' = [TimecodesIdle EXCEPT !.at = "given",
                                              !.scene_change = a,
                                              !.next_scene_change = b]
    /\ UNCHANGED notTimecodeVars

\* let ss_arg = format_timecode(&scene_change);
\* let to_arg = format_timecode(&next_scene_change);
TimecodeFormat ==
    /\ timecodes.at = "given"
    /\ timecodes' = [timecodes EXCEPT
                       !.at = "rendered",
                       !.ss_arg = FormatTimecode(timecodes.scene_change),
                       !.to_arg = FormatTimecode(timecodes.next_scene_change)]
    /\ UNCHANGED notTimecodeVars

\* the worker goes on with its scene; another worker renders its own
TimecodeReset ==
    /\ timecodes.at = "rendered"
    /\ timecodes' = TimecodesIdle
    /\ UNCHANGED notTimecodeVars

\* run_ffmpeg_extract_scene_changes_pipe_vmaf_target_threaded up to and
\* including the dispatch loop: build and sort the scenes, extract temp.mkv,
\* create or load done.txt, submit the remaining scenes to the pool.
\*   extract: "spawn_err" (the `?` returns), "ok", "failed" (ffmpeg ran and
\*            left no new file; without -y it does not overwrite an
\*            existing temp.mkv, so on a resumed run it fails and the old
\*            temp.mkv stays)
\*   io_ok:   File::create / read_to_string of done.txt succeeded
StartRun ==
    /\ pc = "idle"
    /\ runNo < MaxRuns
    /\ \E extract \in {"spawn_err", "ok", "failed"}, io_ok \in BOOLEAN :
        LET scenes == SortByDuration(ScenesOf(scene_changes))
            lines == OpenDone(doneExists, doneLog)
            left == FilterDone(scenes, lines)
            aborted == extract = "spawn_err" \/ ~io_ok
        IN  /\ extract = "spawn_err" => io_ok
            /\ tempExists => extract # "ok"
            /\ Env(aborted \/ (extract = "failed" /\ ~tempExists))
            /\ runNo' = runNo + 1
            /\ tempExists' = (tempExists \/ extract = "ok")
            /\ doneAtStart' = Range(lines)
            /\ searchFailed' = {}
            /\ encodeFailed' = {}
            /\ panicked' = {}
            /\ asmStart' = NoAsm
            /\ concatResult' = "none"
            /\ listLines' = <<>>
            /\ outputWritten' = FALSE
            /\ active' = {}
            /\ UNCHANGED interrupted
            /\ IF aborted
               THEN /\ pc' = "idle"
                    /\ queue' = <<>>
                    /\ submitted' = <<>>
                    /\ UNCHANGED ckptVars
               ELSE /\ pc' = "pool"
                    /\ doneExists' = TRUE
                    /\ doneLog' = lines
                    /\ queue' = DispatchOrder(left)
                    /\ submitted' = queue'
    /\ UNCHANGED <<inputVars, ledgerVars, sceneFiles>>

\* ------------------------------------------------------------ the workers
Job(s, at) == [scene |-> s, at |-> at]

Moved(j, at) == (active \ {j}) \cup {Job(j.scene, at)}

\* a pool thread takes the oldest queued job (threadpool.execute, FIFO) and
\* starts the closure: let scene_size = get_scene_size(..).unwrap(); a panic
\* of the unwrap ends the job, the pool replaces the thread
WorkerStart ==
    /\ pc = "pool"
    /\ queue # <<>>
    /\ Cardinality(active) < thread_count
    /\ queue' = Tail(queue)
    /\ \E size_ok \in BOOLEAN :
        /\ Env(~size_ok)
        /\ IF size_ok
           THEN /\ active' = active \cup {Job(Head(queue), "search")}
                /\ UNCHANGED panicked
           ELSE /\ panicked' = panicked \cup {Head(queue)}
                /\ UNCHANGED active
    /\ UNCHANGED <<inputVars, pc, ckptVars, ledgerVars, sceneFiles,
                   tempExists, asmVars, runVars, searchFailed, encodeFailed>>

\* a mutant of AfterSearch: a failed search never returns to the pool
AfterSearchHung(res) == IF res.ok THEN "encode" ELSE "hung"

\* a mutant of AfterSearch: the index is written without the full encode
AfterSearchSkipsEncode(res) == IF res.ok THEN "done" ELSE "end"

\* a mutant of AfterSearch: the result of the search is not looked at
AfterSearchUnchecked(res) == "encode"

\* if let Ok((crf, vmaf_score)) = process_scene_adjust_crf_binary(..) {..}:
\* where the job goes after the search
AfterSearch(res) == IF res.ok THEN "encode" ELSE "end"

\* the search of one scene: res is what process_scene_adjust_crf_binary
\* returns for the scores its probes measure; process_video_pipe_and_vmaf
\* failing to spawn makes the `.unwrap()` in the loop panic
WorkerSearch ==
  \E j \in active :
    /\ pc = "pool"
    /\ j.at = "search"
    /\ \E spawned \in BOOLEAN, res \in SearchResults :
        /\ Env(~spawned \/ ~res.ok)
        /\ IF ~spawned
           THEN /\ ~res.ok
                /\ active' = active \ {j}
                /\ panicked' = panicked \cup {j.scene}
                /\ UNCHANGED searchFailed
           ELSE /\ active' = IF AfterSearch(res) = "end" THEN active \ {j}
                             ELSE Moved(j, AfterSearch(res))
                /\ searchFailed' = IF res.ok THEN searchFailed
                                   ELSE searchFailed \cup {j.scene}
                /\ UNCHANGED panicked
    /\ UNCHANGED <<inputVars, pc, queue, ckptVars, ledgerVars, sceneFiles,
                   tempExists, asmVars, runVars, encodeFailed>>

\* process_video_scene_encoded; the exit status of the encoder is not
\* looked at.
\*   "ok":        exit 0 and a size > 0 parsed from the encoder's stderr
\*   "nosize":    exit 0, no size parsed (return_size stays 0)
\*   "nonzero":   the encoder exited non-zero; what it wrote stays
\*   "spawn_err": command.spawn()? failed, the function returns Err, the
\*                worker prints it and goes on with encoded_size = 0
WorkerEncode ==
  \E j \in active :
    /\ pc = "pool"
    /\ j.at = "encode"
    /\ \E outcome \in {"ok", "nosize", "nonzero", "spawn_err"},
          written \in BOOLEAN :
        /\ Env(outcome # "ok")
        /\ outcome \in {"ok", "nosize"} => written
        /\ outcome = "spawn_err" => ~written
        /\ sceneFiles' = IF written THEN sceneFiles \cup {j.scene}
                         ELSE sceneFiles
        /\ encodeFailed' = IF outcome = "ok" THEN encodeFailed
                           ELSE encodeFailed \cup {j.scene}
    /\ active' = Moved(j, "chunks")
    /\ UNCHANGED <<inputVars, pc, queue, ckptVars, ledgerVars, tempExists,
                   asmVars, runVars, searchFailed, panicked>>

\* if !Path::new("chunks.txt").exists(): the test
WorkerChunksCheck ==
  \E j \in active :
    /\ pc = "pool"
    /\ j.at = "chunks"
    /\ active' = Moved(j, IF chunksExists THEN "append" ELSE "create")
    /\ UNCHANGED <<faults, inputVars, pc, queue, ckptVars, ledgerVars, sceneFiles,
                   tempExists, asmVars, runVars, failVars>>

\* fs::File::create("chunks.txt") (creates or truncates, writes nothing) or
\* the append of the scene's line (nothing reads chunks.txt, so the order
\* of its lines is not kept)
WorkerChunksWrite ==
  \E j \in active :
    /\ pc = "pool"
    /\ j.at \in {"create", "append"}
    /\ chunksExists' = TRUE
    /\ chunksLog' = IF j.at = "create" THEN EmptyBag
                    ELSE chunksLog (+) SetToBag({j.scene})
    /\ active' = Moved(j, "done")
    /\ UNCHANGED <<faults, inputVars, pc, queue, ckptVars, sceneFiles, tempExists,
                   asmVars, runVars, failVars>>

\* a mutant of AppendDone: the index is not written
AppendDoneSkipped(log, index) == log

\* OpenOptions::new().append(true).open("done.txt"); writeln!(file, "{}",
\* index): one more line at the end of done.txt
AppendDone(log, index) == Append(log, index)

\* the size estimate (fs::metadata("temp.mkv").unwrap() panics when the side
\* container is missing) and then the append of the index to done.txt
WorkerDone ==
  \E j \in active :
    /\ pc = "pool"
    /\ j.at = "done"
    /\ active' = active \ {j}
    /\ IF tempExists
       THEN /\ doneLog' = AppendDone(doneLog, j.scene)
            /\ UNCHANGED panicked
       ELSE /\ panicked' = panicked \cup {j.scene}
            /\ UNCHANGED doneLog
    /\ UNCHANGED <<faults, inputVars, pc, queue, doneExists, ledgerVars, sceneFiles,
                   tempExists, asmVars, runVars, searchFailed, encodeFailed>>

\* threadpool.join(): every submitted job has ended; concatenate_videos is
\* entered
PoolJoin ==
    /\ pc = "pool"
    /\ queue = <<>>
    /\ active = {}
    /\ pc' = "asm_list"
    /\ asmStart' = [entered |-> TRUE, scenes |-> sceneFiles,
                    temp |-> tempExists, done |-> doneExists]
    /\ UNCHANGED <<faults, inputVars, poolVars, ckptVars, ledgerVars, sceneFiles,
                   tempExists, listLines, outputWritten, concatResult,
                   runVars, failVars>>

\* ----------------------------------------------------- concatenate_videos
\* the orders in which WalkDir can return a set of files: it is not asked
\* to sort, the order is the one of the directory enumeration
Enumerations(files) ==
    {o \in [1..Cardinality(files) -> files] : Range(o) = files}

\* concatenate_videos returns Err: the caller prints it, keeps done.txt and
\* returns
ConcatErr ==
    /\ concatResult' = "err"
    /\ listLines' = <<>>
    /\ Returned
    /\ UNCHANGED <<ckptVars, outputWritten>>

AsmUnchanged == <<inputVars, ledgerVars, asmStart, failVars>>

\* Step 1: File::create("list.txt") and one line per entry whose name
\* starts with "scene_"
AsmWriteList ==
    /\ pc = "asm_list"
    /\ \E io_ok \in BOOLEAN, order \in Enumerations(sceneFiles) :
        /\ Env(~io_ok)
        /\ IF io_ok
           THEN /\ listLines' = order
                /\ pc' = "asm_concat"
                /\ UNCHANGED <<poolVars, ckptVars, concatResult, outputWritten,
                               runVars>>
           ELSE ConcatErr
    /\ UNCHANGED <<AsmUnchanged, sceneFiles, tempExists>>

\* Step 2: ffmpeg -f concat -i list.txt -c copy merged_scenes.mkv, reading
\* the files in the order of the list; it cannot succeed on an empty list
AsmConcat ==
    /\ pc = "asm_concat"
    /\ \E success \in BOOLEAN :
        /\ Env(~success)
        /\ IF success
           THEN /\ listLines # <<>>
                /\ listLines' = <<>>
                /\ pc' = "asm_rm_list"
                /\ UNCHANGED <<poolVars, ckptVars, concatResult, outputWritten,
                               runVars>>
           ELSE ConcatErr
    /\ UNCHANGED <<AsmUnchanged, sceneFiles, tempExists>>

\* Step 3: std::fs::remove_file("list.txt")?
AsmRemoveList ==
    /\ pc = "asm_rm_list"
    /\ \E io_ok \in BOOLEAN :
        /\ Env(~io_ok)
        /\ IF io_ok
           THEN /\ pc' = "asm_remux"
                /\ UNCHANGED <<poolVars, ckptVars, concatResult, outputWritten,
                               runVars, listLines>>
           ELSE ConcatErr
    /\ UNCHANGED <<AsmUnchanged, sceneFiles, tempExists>>

\* a mutant of RemuxStatusOk: the exit status of the remux is not looked at
RemuxStatusIgnored(success) == TRUE

\* if !output.status.success() { return Err(..) }: the deletions are reached
\* only when the remux exited successfully
RemuxStatusOk(success) == success

\* Step 4: ffmpeg -i temp.mkv -i merged_scenes.mkv -c copy <output>; it
\* cannot succeed without its input temp.mkv
AsmRemux ==
    /\ pc = "asm_remux"
    /\ \E success \in BOOLEAN :
        /\ Env(~success)
        /\ IF RemuxStatusOk(success)
           THEN /\ success => tempExists
                /\ outputWritten' = success
                /\ pc' = "asm_rm_merged"
                /\ UNCHANGED <<poolVars, ckptVars, concatResult, runVars,
                               listLines>>
           ELSE ConcatErr
    /\ UNCHANGED <<AsmUnchanged, sceneFiles, tempExists>>

\* Step 5: std::fs::remove_file("merged_scenes.mkv")?
AsmRemoveMerged ==
    /\ pc = "asm_rm_merged"
    /\ \E io_ok \in BOOLEAN :
        /\ Env(~io_ok)
        /\ IF io_ok
           THEN /\ pc' = "asm_rm_temp"
                /\ UNCHANGED <<poolVars, ckptVars, concatResult, outputWritten,
                               runVars, listLines>>
           ELSE ConcatErr
    /\ UNCHANGED <<AsmUnchanged, sceneFiles, tempExists>>

\* Step 6: std::fs::remove_file("temp.mkv")?
AsmRemoveTemp ==
    /\ pc = "asm_rm_temp"
    /\ \E io_ok \in BOOLEAN :
        /\ Env(~io_ok)
        /\ IF io_ok
           THEN /\ tempExists' = FALSE
                /\ pc' = "asm_rm_scenes"
                /\ UNCHANGED <<poolVars, ckptVars, concatResult, outputWritten,
                               runVars, listLines>>
           ELSE /\ UNCHANGED tempExists
                /\ ConcatErr
    /\ UNCHANGED <<AsmUnchanged, sceneFiles>>

\* Step 7: one std::fs::remove_file(entry.path())? of the loop over the
\* scene_ files
AsmRemoveScene ==
    /\ pc = "asm_rm_scenes"
    /\ \E f \in sceneFiles, io_ok \in BOOLEAN :
        /\ Env(~io_ok)
        /\ IF io_ok
           THEN /\ sceneFiles' = sceneFiles \ {f}
                /\ UNCHANGED <<pc, poolVars, ckptVars, concatResult,
                               outputWritten, runVars, listLines>>
           ELSE /\ UNCHANGED sceneFiles
                /\ ConcatErr
    /\ UNCHANGED <<AsmUnchanged, tempExists>>

\* concatenate_videos returns Ok(()); the caller runs
\* fs::remove_file("done.txt").unwrap() and returns (or panics on the unwrap)
AsmOk ==
    /\ pc = "asm_rm_scenes"
    /\ sceneFiles = {}
    /\ concatResult' = "ok"
    /\ \E io_ok \in BOOLEAN :
        /\ Env(~io_ok)
        /\ doneExists' = (doneExists /\ ~io_ok)
        /\ doneLog' = IF io_ok THEN <<>> ELSE doneLog
    /\ Returned
    /\ UNCHANGED <<AsmUnchanged, sceneFiles, tempExists, listLines,
                   outputWritten>>

\* ------------------------------------------------------------ interruption
\* the process is terminated; the working directory stays as it is, with
\* whatever the encoders that were running had written
Kill ==
    /\ pc # "idle"
    /\ pc' = "idle"
    /\ queue' = <<>>
    /\ active' = {}
    /\ interrupted' = TRUE
    /\ \E partial \in SUBSET {j.scene : j \in {a \in active : a.at = "encode"}} :
        sceneFiles' = sceneFiles \cup partial
    /\ UNCHANGED <<faults, inputVars, ckptVars, ledgerVars, tempExists, asmVars,
                   runNo, doneAtStart, submitted, failVars>>

\* --------------------------------- the batch of the command line (chunked)
\* what the loop over the files leaves alone in this model: the working
\* directory and the state of the pipeline function
pipelineVars ==
    <<poolVars, ckptVars, ledgerVars, asmVars, runVars, failVars, pc,
      sceneFiles, tempExists, faults, searchVars, scanVars, webVars,
      loadVars>>

\* a panic on the main thread (an unwrap or expect that fails): nothing
\* catches it, the process ends
BatchPanic ==
    /\ batchAt' = "dead"
    /\ batchFailed' = batchFailed \cup {batchFile}
    /\ UNCHANGED <<batchFile, sizesDone>>

\* for file in vector_files_to_process.clone(): the next file is taken
BatchNextFile ==
    /\ batchAt \in {"idle", "after"}
    /\ batchFile < MaxRuns
    /\ batchFile' = batchFile + 1
    /\ batchAt' = "scan"
    /\ sizesDone' = 0
    /\ UNCHANGED <<scene_changes, batchFailed, pipelineVars>>

\* run_ffmpeg_scene_change(&file, &args) followed by .unwrap():
\*   "probe_failed": ffprobe cannot be run or prints no duration (expect and
\*                   parse::<f32>().unwrap() inside the function)
\*   "spawn_failed": the scan process cannot be started (expect)
\*   "err":          the function returns Err, the caller's unwrap panics
BatchScan ==
    /\ batchAt = "scan"
    /\ \E outcome \in {"ok", "probe_failed", "spawn_failed", "err"} :
        IF outcome = "ok"
        THEN /\ scene_changes' \in BoundaryLists
             /\ batchAt' = "sizes"
             /\ UNCHANGED <<batchFile, batchFailed, sizesDone>>
        ELSE /\ BatchPanic
             /\ UNCHANGED scene_changes
    /\ UNCHANGED pipelineVars

\* one pass of the loop over the scenes:
\* scene_sizes.push((scene_index, get_scene_size(..).unwrap()))
BatchSceneSize ==
    /\ batchAt = "sizes"
    /\ sizesDone < NumScenes
    /\ \E size_ok \in BOOLEAN :
        IF size_ok
        THEN /\ sizesDone' = sizesDone + 1
             /\ batchAt' = IF sizesDone' = NumScenes THEN "pipeline"
                           ELSE "sizes"
             /\ UNCHANGED <<batchFile, batchFailed>>
        ELSE BatchPanic
    /\ UNCHANGED <<scene_changes, pipelineVars>>

\* the caller gets the result of the pipeline function back and unwraps it:
\* let scene_changes = _scene_changes.unwrap().  The function
\*   returned Err when a `?` before the dispatch failed (temp.mkv extraction,
\*     done.txt): the unwrap panics;
\*   panicked itself when fs::remove_file("done.txt").unwrap() failed;
\*   returns Ok otherwise, also when workers failed or when
\*     concatenate_videos returned Err (it is only printed).
BatchReturn ==
    /\ batchAt = "pipeline"
    /\ runNo = batchFile
    /\ pc = "idle"
    /\ IF concatResult = "none" \/ (concatResult = "ok" /\ doneExists)
       THEN BatchPanic
       ELSE /\ batchAt' = "after"
            /\ batchFailed' = IF RunFailures = {} /\ concatResult = "ok"
                              THEN batchFailed
                              ELSE batchFailed \cup {batchFile}
            /\ UNCHANGED <<batchFile, sizesDone>>
    /\ UNCHANGED <<scene_changes, pipelineVars>>

\* --------------------------------------------------------------- the state
Init ==
    /\ scene_changes \in BoundaryLists
    /\ pc = "idle"
    /\ queue = <<>>
    /\ active = {}
    /\ doneExists = FALSE
    /\ doneLog = <<>>
    /\ chunksExists = FALSE
    /\ chunksLog = EmptyBag
    /\ sceneFiles = {}
    /\ tempExists = FALSE
    /\ listLines = <<>>
    /\ outputWritten = FALSE
    /\ concatResult = "none"
    /\ runNo = 0
    /\ doneAtStart = {}
    /\ submitted = <<>>
    /\ searchFailed = {}
    /\ encodeFailed = {}
    /\ panicked = {}
    /\ asmStart = NoAsm
    /\ interrupted = FALSE
    /\ faults = 0
    /\ batchFile = 0
    /\ batchAt = "idle"
    /\ batchFailed = {}
    /\ sizesDone = 0
    /\ search = SearchInit
    /\ searchTarget = vmaf_target
    /\ searchResult = "idle"
    /\ scan = ScanIdle
    /\ web = WebInit
    /\ mutexes = LockInit
    /\ ladder = LadderIdle
    /\ load = LoadIdle
    /\ timecodes = TimecodesIdle

Next ==
    \/ StartRun
    \/ WorkerStart
    \/ WorkerSearch
    \/ WorkerEncode
    \/ WorkerChunksCheck
    \/ WorkerChunksWrite
    \/ WorkerDone
    \/ PoolJoin
    \/ AsmWriteList
    \/ AsmConcat
    \/ AsmRemoveList
    \/ AsmRemux
    \/ AsmRemoveMerged
    \/ AsmRemoveTemp
    \/ AsmRemoveScene
    \/ AsmOk
    \/ Kill

Spec == Init /\ [][Next]_vars

\* the threads of the pool are scheduled: a job that can be taken is taken, a
\* running job takes its next step (its subprocesses end), and
\* threadpool.join() returns once no job is queued or running
PoolSteps ==
    \/ WorkerStart
    \/ WorkerSearch
    \/ WorkerEncode
    \/ WorkerChunksCheck
    \/ WorkerChunksWrite
    \/ WorkerDone
    \/ PoolJoin

\* one run of the function up to the return of threadpool.join(), with the
\* pool's threads scheduled fairly
PoolNext ==
    \/ runNo = 0 /\ StartRun
    \/ PoolSteps

PoolSpec == Init /\ [][PoolNext]_vars /\ WF_vars(PoolSteps)

\* one call of the per-scene search
SearchNext ==
    \/ SearchCall
    \/ SearchProbe
    \/ SearchReturn

SearchSpec == Init /\ [][SearchNext]_vars

\* one call of the scan for scene changes
ScanNext ==
    \/ ScanCall
    \/ ScanDetection
    \/ ScanEnd
    \/ ScanEof
    \/ ScanReset

ScanSpec == Init /\ [][ScanNext]_vars

\* the thread that runs the scan is scheduled: the read loop takes its next
\* pass whenever a pass changes anything
ScanLiveSpec == ScanSpec /\ WF_vars(ScanNext)

\* the requests for progress and the tasks that report it
WebNext ==
    \/ \E r \in Readers : ReaderCall(r)
    \/ \E r \in Readers : ReaderLock(r)
    \/ \E r \in Readers : ReaderReturn(r)
    \/ \E t \in Tasks : WriterBegin(t)
    \/ \E t \in Tasks : WriterStep(t)

WebSpec == Init /\ [][WebNext]_vars

\* the timecodes of one scene
TimecodeNext ==
    \/ TimecodeCall
    \/ TimecodeFormat
    \/ TimecodeReset

TimecodeSpec == Init /\ [][TimecodeNext]_vars

\* one call of the whole-file search
LadderNext ==
    \/ LadderCall
    \/ LadderAttempt
    \/ LadderReset

LadderSpec == Init /\ [][LadderNext]_vars

\* the locks under requests and tasks that run side by side
LockNext ==
    \/ \E x \in LockThreads : LockCall(x)
    \/ \E x \in LockThreads : LockStep(x)
    \/ \E x \in LockReaders : LockReturn(x)

\* every thread keeps running, and a thread that finds its lock free again
\* and again takes it at last
LockSpec ==
    /\ Init
    /\ [][LockNext]_vars
    /\ \A x \in LockThreads : SF_vars(LockStep(x))
    /\ \A x \in LockReaders : WF_vars(LockReturn(x))

\* the start of the pipeline function, for every input
LoadNext ==
    \/ LoadRun
    \/ LoadSceneDone
    \/ LoadReset

LoadSpec == Init /\ [][LoadNext]_vars

\* the loop over the files of the batch in chunked mode
AsmSteps ==
    \/ AsmWriteList
    \/ AsmConcat
    \/ AsmRemoveList
    \/ AsmRemux
    \/ AsmRemoveMerged
    \/ AsmRemoveTemp
    \/ AsmRemoveScene
    \/ AsmOk

\* the pipeline function is called once for the file, with the scene list
\* and the sizes just computed
BatchCall == batchAt = "pipeline" /\ runNo < batchFile /\ StartRun

BatchNext ==
    \/ BatchNextFile
    \/ BatchScan
    \/ BatchSceneSize
    \/ BatchCall
    \/ PoolSteps
    \/ AsmSteps
    \/ BatchReturn

BatchSpec == Init /\ [][BatchNext]_vars

\* ------------------------------------------------------------- properties
IsPrefix(s, t) == Len(s) <= Len(t) /\ SubSeq(t, 1, Len(s)) = s

Dispatched == pc # "idle"

\* C1: resume dispatch.  When a run has loaded done.txt listing the set D
\* of indices (D empty when the file did not exist), the scenes submitted
\* to the pool are exactly {0..N-1} \ D, each once, and no queued or running
\* job is a scene of D.
C1_ResumeDispatch ==
    Dispatched =>
        /\ Range(submitted) = AllIndices \ doneAtStart
        /\ Len(submitted) = Cardinality(Range(submitted))
        /\ Range(queue) \cap doneAtStart = {}
        /\ \A j \in active : j.scene \notin doneAtStart

C1_Witness ==
    /\ pc = "pool"
    /\ doneAtStart # {}
    /\ doneAtStart # AllIndices
    /\ active # {}

\* C2: a scene whose full encode failed (spawn error, non-zero exit, no size
\* parsed) is not appended to done.txt nor to chunks.txt.
C2_FailedEncodeNotCheckpointed ==
    \A s \in encodeFailed :
        s \notin Range(doneLog) /\ ~BagIn(s, chunksLog)

\* C3: assembly precondition.  If some index of [0, N) has no artifact when
\* the pool has drained, assembly fails: no final output is written, no
\* artifact is deleted and done.txt is not removed.
C3_AssemblyFailsClosed ==
    (asmStart.entered /\ asmStart.scenes # AllIndices) =>
        /\ ~outputWritten
        /\ concatResult # "ok"
        /\ asmStart.scenes \subseteq sceneFiles
        /\ doneExists

\* C4: if a run ends with some scene not completed (its search or its encode
\* failed), the checkpoint survives and the next run dispatches exactly the
\* scenes that did not complete.
C4_NextRunRetriesUnfinished ==
    [][(pc = "idle" /\ pc' = "pool" /\ concatResult # "none"
            /\ searchFailed \cup encodeFailed # {})
        => (doneExists /\ Range(submitted') = RunFailures)]_vars

\* C5: a scene whose search returned a convergence failure is not encoded
\* (its job has ended) and its index is not in done.txt, up to and after the
\* drain of the pool.
C5_SearchFailureNotCheckpointed ==
    \A s \in searchFailed :
        /\ s \notin Range(doneLog)
        /\ \A j \in active : j.scene # s

C5_Witness ==
    /\ pc = "asm_list"
    /\ searchFailed # {}
    /\ doneLog # <<>>

C8_FailedAssemblyKeepsFiles ==
    concatResult = "err" =>
        /\ asmStart.scenes \subseteq sceneFiles
        /\ asmStart.temp => tempExists
        /\ asmStart.done => doneExists

\* C9: the concat step is fed the scene artifacts in ascending index order.
C9_ConcatInIndexOrder ==
    pc = "asm_concat" => IsStrictlyIncreasing(listLines)

\* C10: after a successful assembly (in a run in which no tool and no file
\* operation failed) done.txt and chunks.txt are both cleared.
C10_CheckpointLogsCleared ==
    (concatResult = "ok" /\ faults = 0) =>
        /\ ~doneExists
        /\ chunksLog = EmptyBag

\* C11: a scene artifact or temp.mkv is removed only after the remux of the
\* run has exited successfully (and so has written the final output).
C11_DeleteOnlyAfterRemux ==
    [][(~(sceneFiles \subseteq sceneFiles') \/ (tempExists /\ ~tempExists'))
        => outputWritten]_vars

C11_Witness ==
    /\ pc = "asm_rm_scenes"
    /\ ~tempExists
    /\ asmStart.scenes # sceneFiles

\* C12: when the pool has drained, chunks.txt holds exactly one line for
\* every scene index appended to done.txt in this run.
C12_LedgerComplete ==
    pc = "asm_list" =>
        \A s \in Range(doneLog) \ doneAtStart : CopiesIn(s, chunksLog) = 1

\* C13: within one run every scene index is submitted to the pool at most
\* once, no scene is both queued and running, and no two running jobs hold
\* the same scene index (and so the same artifact name).
C13_NoDoubleWrite ==
    /\ Len(submitted) = Cardinality(Range(submitted))
    /\ Len(queue) = Cardinality(Range(queue))
    /\ \A j \in active : j.scene \notin Range(queue)
    /\ \A j1, j2 \in active : j1.scene = j2.scene => j1 = j2

C13_Witness ==
    /\ Cardinality(active) = 2
    /\ \E j1, j2 \in active : j1.at = "encode" /\ j2.at = "encode" /\ j1 # j2

\* C14: per-scene failure isolation.  Whatever failed in the workers of other
\* scenes, the pool drains, and when it has drained every dispatched scene
\* whose own worker did not fail has been checkpointed in done.txt.
C14_Isolated ==
    pc = "asm_list" => Range(submitted) \ RunFailures \subseteq Range(doneLog)

C14_FailureIsolation == [](C14_Isolated) /\ (pc = "pool" ~> pc # "pool")

C14_Witness ==
    /\ pc = "asm_list"
    /\ panicked \cup searchFailed # {}
    /\ Range(submitted) \ RunFailures # {}
    /\ Range(submitted) \ RunFailures \subseteq Range(doneLog)

\* C15: per-file failure isolation.  A failure in the pipeline of one file
\* of the batch never ends the batch while files remain: the run goes on to
\* the next file.
C15_BatchGoesOn ==
    \A f \in batchFailed : f < MaxRuns => batchAt # "dead"

\* the search has returned
Searched == searchResult \in {"ok", "err"}

Err10(k) == Abs(searchTarget - search.probes[k][2])

\* C16: search termination.  For every target and every sequence of measured
\* scores the search makes at most max_iterations (3) probes.
C16_AtMostThreeProbes == Len(search.probes) <= max_iterations

C16_Witness == Searched /\ Len(search.probes) = max_iterations

\* C17: closest result.  When no probe landed within 0.5 of the target, the
\* pair returned is one of the probes made, crf and score as measured
\* together, and no other probe was closer to the target.
C17_ClosestResult ==
    (searchResult = "ok" /\ \A k \in DOMAIN search.probes : Err10(k) > 5) =>
        \E k \in DOMAIN search.probes :
            /\ search.probes[k] = <<search.best_crf, search.best_vmaf>>
            /\ \A k2 \in DOMAIN search.probes : Err10(k) <= Err10(k2)

\* C18: search outcome.  The search returns success exactly when at least
\* one of its probes produced a measured (non-zero) score.
C18_SuccessIffMeasured ==
    Searched =>
        (searchResult = "ok" <=>
            \E k \in DOMAIN search.probes : search.probes[k][2] # 0)

ScenarioHolds(second, third) ==
    LET p == search.probes
    IN  (searchTarget = 970 /\ Len(p) >= 1 /\ p[1][2] = 900) =>
            /\ p[1][1] = 23 * CrfUnit
            /\ Len(p) >= 2 => p[2][1] = second
            /\ (Len(p) >= 3 /\ p[2][2] = 985) => p[3][1] = third
            /\ (Len(p) >= 3 /\ p[2][2] = 985 /\ Err10(3) <= 5) =>
                   /\ Len(p) = 3
                   /\ searchResult # "err"
                   /\ <<search.best_crf, search.best_vmaf>> = p[3]

\* C20 as stated: the second probe is at CRF 16.5 and the third at CRF 18.5.
C20_ScenarioAsStated == ScenarioHolds(132, 148)

\* C20, amended: with target 97, a first probe at CRF 23 measuring 90 leads
\* to a second probe at CRF 17.0; a second probe measuring 98.5 leads to a
\* third probe at CRF 19.0; a third probe within 0.5 of the target is
\* accepted, for 3 iterations in total.
C20_Scenario == ScenarioHolds(136, 152)

C20_Witness ==
    /\ searchTarget = 970
    /\ searchResult = "ok"
    /\ search.probes = <<<<184, 900>>, <<136, 985>>, <<152, 968>>>>

ScanReturned == scan.at = "returned"

\* C21: boundary coverage.  Whatever was detected, the list returned by
\* run_ffmpeg_scene_change starts with 0 and ends with the measured
\* duration, it gives at least one scene, and in the scenes built from its
\* consecutive pairs each scene ends where the next one starts.
C21_BoundaryCoverage ==
    ScanReturned =>
        LET list == scan.scene_changes_list
            scenes == ScenesOf(list)
        IN  /\ list[1] = 0
            /\ Last(list) = scan.total_duration
            /\ Len(scenes) >= 1
            /\ \A k \in 1..(Len(scenes) - 1) : scenes[k][3] = scenes[k + 1][2]

\* a scan that detected nothing, and so returns one scene
C21_Witness ==
    /\ ScanReturned
    /\ scan.last_pts = 0
    /\ Len(scan.scene_changes_list) = 2

\* C22: every scene ends after it starts: the list returned is strictly
\* increasing, for every sequence of detections in [0, duration].
C22_StrictlyIncreasing ==
    ScanReturned => IsStrictlyIncreasing(scan.scene_changes_list)

\* C23: merge invariant.  In the list returned, two consecutive boundaries
\* other than the trailing duration are at least scene_split_min apart, and
\* while the stream is read a detection closer than that to the last kept
\* boundary is dropped: the last kept boundary is at most the last
\* detection, and more than scene_split_min before it only when kept.
C23_MergeInvariant ==
    LET list == scan.scene_changes_list
        kept == IF ScanReturned THEN Len(list) - 1 ELSE Len(list)
    IN  /\ \A k \in 1..(kept - 1) :
               list[k + 1] - list[k] >= scan.scene_split_min
        /\ scan.at = "reading" =>
               /\ Last(list) <= scan.last_pts
               /\ scan.last_pts - Last(list) < scan.scene_split_min

\* a list returned with a kept detection, after a closer one was dropped
C23_Witness ==
    /\ ScanReturned
    /\ Len(scan.scene_changes_list) = 3
    /\ scan.scene_changes_list[2] = scan.scene_split_min + 1
    /\ scan.last_pts > scan.scene_changes_list[2]

\* C24: readers never block writers.  While a request builds its snapshot,
\* no task that updates a progress field waits for a lock the request holds.
C24_ReadersNeverBlockWriters == \A t \in Tasks : ~Waits(t)

\* the probe made by a step of the search, and its error
ProbeMade == Len(search'.probes) = Len(search.probes) + 1
NewProbe == Last(search'.probes)
ProbeError == Abs(searchTarget - NewProbe[2])

\* the change of CRF (in eighths) the step policy prescribes for an error
\* in tenths: 3.0, 2.0, 1.0, 0.5 in (2.0, 3.0], (1.0, 2.0], (0.8, 1.0],
\* (0.5, 0.8]
Prescribed(e) ==
    IF e \in 21..30 THEN 24
    ELSE IF e \in 11..20 THEN 16
    ELSE IF e \in 9..10 THEN 8
    ELSE 4

ValidIndices(texts) ==
    {ParseI32(texts[k]).value : k \in {j \in DOMAIN texts : ParseI32(texts[j]).ok}}

RECURSIVE SumFrames(_, _)
SumFrames(b, indices) ==
    IF indices = {} THEN 0
    ELSE LET i == CHOOSE x \in indices : TRUE
         IN  (IF i + 1 < Len(b) THEN (b[i + 2] - b[i + 1]) * fps ELSE 0)
             + SumFrames(b, indices \ {i})

C28_LoadTolerant ==
    (load.at = "loaded" /\ load.exists) =>
        /\ load.outcome = "panic" => AllParse(load.texts)
        /\ load.outcome = "ok" =>
               {sc[1] : sc \in Range(load.left)} =
                   (0..(Len(load.scene_changes) - 2))
                       \ ValidIndices(load.texts)

\* the duration of the scene of index i of the list b
DurationOf(b, i) == b[i + 2] - b[i + 1]

\* C30: shortest-first dispatch.  For every boundary list, the scenes are
\* handed to the pool in non-decreasing order of duration.
C30_ShortestFirst ==
    (load.at = "loaded" /\ load.outcome = "ok") =>
        \A k \in 1..(Len(load.dispatch) - 1) :
            DurationOf(load.scene_changes, load.dispatch[k])
                <= DurationOf(load.scene_changes, load.dispatch[k + 1])

\* three scenes, the longest first in the file, dispatched in the reverse
\* order
C30_Witness ==
    /\ load.at = "loaded"
    /\ load.outcome = "ok"
    /\ load.dispatch = <<2, 1, 0>>
    /\ DurationOf(load.scene_changes, 2) <= DurationOf(load.scene_changes, 1)
    /\ DurationOf(load.scene_changes, 1) < DurationOf(load.scene_changes, 0)

\* the place of a stage in the closure of a worker: the size measurement
\* precedes "search"; the full encode returns when its encoder has exited
StageRank(at) ==
    CASE at = "search" -> 1
      [] at = "encode" -> 2
      [] at = "chunks" -> 3
      [] at \in {"create", "append"} -> 4
      [] at = "done" -> 5

\* C29: per-scene ordering.  The job of a scene goes through search, full
\* encode, size ledger and done.txt in this order, one stage at a time: the
\* ledger is written only by a job that has finished its encode, and an
\* index is appended to done.txt only by the job of that scene once it has
\* passed the encode and the ledger.
C29_PerSceneOrder ==
    [][/\ \A j \in active, k \in active' :
              (j.scene = k.scene /\ j # k) =>
                  StageRank(k.at) = StageRank(j.at) + 1
       /\ \A k \in active' :
              (\A j \in active : j.scene # k.scene) => k.at = "search"
       /\ (pc = "pool" /\ chunksLog' # chunksLog) =>
              \E j \in active : /\ StageRank(j.at) = 4
                                /\ Job(j.scene, "done") \in active'
       /\ (pc = "pool" /\ doneLog' # doneLog) =>
              \E j \in active : /\ j.at = "done"
                                /\ doneLog' = Append(doneLog, j.scene)
                                /\ j.scene \in sceneFiles \cup encodeFailed
                                /\ \A k \in active' : k.scene # j.scene]_vars

\* two scenes of one run whose indices stand in done.txt in the order
\* opposite to the one they were dispatched in
C29_Witness ==
    /\ Len(submitted) = 2
    /\ Len(doneLog) = 2
    /\ doneLog[1] = submitted[2]
    /\ doneLog[2] = submitted[1]

\* C31: progress keyed by task.  With two tasks running, what
\* GET /progress/<id> returns under the label <id> are values written by
\* the task <id> (or the initial ones), never values of the other task.
C31_KeyedByTask ==
    (web.snap.kind = "get_progress_web_id" /\ web.snap.id # 0) =>
        web.snap.from \subseteq {0, web.snap.id}

InCrfRange(crf) == 10 * CrfUnit <= crf /\ crf <= 45 * CrfUnit

\* C32: CRF range.  Whatever the probes measure, every CRF probed by the
\* search lies within [10, 45], and so does the CRF it returns.
C32_CrfRange ==
    /\ \A k \in DOMAIN search.probes : InCrfRange(search.probes[k][1])
    /\ searchResult = "running" /\ LoopContinues(search) => InCrfRange(search.crf)
    /\ searchResult = "ok" => InCrfRange(search.best_crf)

\* a search that went down three times, by two bisections and a step of
\* 3.0, and returned CRF 11
C32_Witness ==
    /\ searchResult = "ok"
    /\ Len(search.probes) = 3
    /\ search.best_crf = 11 * CrfUnit

\* C33: search range.  In every state of a search, within its budget of
\* three probes, min_crf <= max_crf: the exit on a degenerate range is never
\* taken, and every probe that is not accepted reaches the update of the
\* best result.
C33_RangeNeverDegenerate ==
    /\ search.min_crf <= search.max_crf
    /\ search.stopped =>
           /\ search.probes # <<>>
           /\ Accepted(Abs(searchTarget - Last(search.probes)[2]))

\* three probes corrected by bisection from both sides: the range has
\* shrunk to less than 8 CRF and is still in order
C33_Witness ==
    /\ search.iteration = max_iterations + 1
    /\ search.min_crf > 10 * CrfUnit
    /\ search.max_crf < 45 * CrfUnit
    /\ search.max_crf - search.min_crf < 8 * CrfUnit

\* C34: scan termination.  For every finite diagnostic stream, also one
\* that ends without "out#0" and one whose "out#0" comes in the read of a
\* dropped detection, the read loop is left and the list is returned.
C34_ScanTerminates == (scan.at = "reading") ~> (scan.at = "returned")

\* C35: cross-file checkpoint isolation.  In a batch, where each file gets
\* one run in the shared working directory, the run of a later file finds no
\* checkpoint entry of an earlier file that keeps a scene of its own from
\* being dispatched, and concatenates no scene file that it did not encode.
C35_CrossFileIsolation ==
    (batchFile > 1 /\ runNo = batchFile) =>
        /\ doneAtStart = {}
        /\ asmStart.entered => asmStart.scenes \subseteq Range(submitted)

\* C36: scene counter.  The counter shown when a scene completes is the
\* number of scenes completed so far, that one included: those listed in
\* done.txt at the start plus those completed in this run; on a fresh run,
\* on a resumed run and on a run that finds an empty done.txt.
C36_SceneCounter ==
    (load.at = "loaded" /\ load.completed # {}) =>
        load.shown =
            (Len(load.scene_changes) - 1 - Len(load.left))
            + Cardinality(load.completed)

C39_FallbackLadder ==
    /\ ladder.result # "panic"
    /\ ladder.vmaf <= ladder.target
    /\ ladder.at = "loop" => ladder.vmaf = ladder.target - ladder.attempts
    /\ ladder.at # "idle" =>
           ladder.attempts <= (IF ladder.target < 0 THEN 0 ELSE ladder.target) + 1
    /\ ladder.result = "err" => ladder.attempts = ladder.target + 1
    /\ ladder.result = "ok" =>
           ladder.value = ladder.target - (ladder.attempts - 1)

\* C40: timecode rendering.  For a boundary of s whole seconds and f
\* milliseconds the rendered HH:MM:SS is s and the rendered mmm is f; so
\* the two boundaries of a scene, at least a millisecond apart, never
\* render to the same text, and the rendered end is later than the
\* rendered start.
RendersAs(b, t) ==
    /\ t.hours * 3600 + t.minutes * 60 + t.seconds = b.s
    /\ t.miliseconds = b.f
C40_TimecodeRendering ==
    timecodes.at = "rendered" =>
        /\ RendersAs(timecodes.scene_change, timecodes.ss_arg)
        /\ RendersAs(timecodes.next_scene_change, timecodes.to_arg)
        /\ timecodes.ss_arg.text # timecodes.to_arg.text
        /\ Earlier([s |-> timecodes.ss_arg.hours * 3600
                          + timecodes.ss_arg.minutes * 60
                          + timecodes.ss_arg.seconds,
                    f |-> timecodes.ss_arg.miliseconds],
                   [s |-> timecodes.to_arg.hours * 3600
                          + timecodes.to_arg.minutes * 60
                          + timecodes.to_arg.seconds,
                    f |-> timecodes.to_arg.miliseconds])
====
